---- MODULE Spec2Model ----
(***************************************************************************)
(* A model of the OpenCtx client library (varungandhi-src/openctx):        *)
(*   - the provider pool of client.ts (createProviderPool, an LRUCache     *)
(*     with a TTL) under the specification Spec;                           *)
(*   - one ProviderClient of createProviderClient.ts, call by call, under  *)
(*     the specification SpecClient;                                       *)
(*   - the facade's combined streams (createClient) over the aggregation   *)
(*     engine, under the specification SpecAgg;                            *)
(*   - the facade itself (createClient: the configuration and credential   *)
(*     watches, the debug-gated logger, dispose), under SpecFacade;        *)
(*   - the pool's keys as the facade builds them, under SpecKeys;          *)
(*   - one ProviderClient call under every kind of logger, under SpecLog.  *)
(* Times are in milliseconds, as in the source.                            *)
(***************************************************************************)
EXTENDS Integers, Sequences, FiniteSets, TLC

VARIABLES
    now,        \* performance.now(), in ms
    advances,   \* how many times the clock has been advanced (bounded)
    cache,      \* the LRUCache: cacheKey string -> [client, start]
    cachedNow,  \* the LRUCache's debounced clock reading (0: none)
    timers,     \* pending setTimeout callbacks of the LRUCache
    nextClient, \* the next ProviderClient instance to be constructed
    calls,      \* the getOrCreate calls made so far, in order
    provCaps,   \* what the provider's capabilities method does
    logger,     \* whether createProviderClient was given a logger
    pcalls,     \* the calls made on the ProviderClient, in order
    op,         \* the Client operation subscribed to ("none": not yet)
    plist,      \* the provider list the facade handed to the engine, if any
    results,    \* what each provider's call of the current list settled with
    emitted,    \* the snapshots the combined stream has emitted, in order
    stream,     \* the combined stream: open, unsubscribed or errored
    promise,    \* what the promise of a pull operation settled with
    aggLog,     \* the providers whose failure the engine has logged
    disposed,   \* dispose() has been called on the Client
    debugVal,   \* the debug flag shareReplay(1) replays, if it has one
    debugSrc,   \* the debug pipeline's subscription to env.configuration()
    cfgSrc,     \* the operation's subscription to env.configuration(...)
    gens,       \* one entry per configuration the operation's stream received
    flist,      \* the provider list handed to the engine: [uri, client, gen]
    waiting,    \* messages the gated logger holds until debug has a value
    sink,       \* the calls of env.logger, in order
    effects,    \* how many callbacks, lookups and provider calls have run
    runs        \* the same ProviderClient call under each kind of logger

poolVars == <<now, advances, cache, cachedNow, timers, nextClient, calls>>

clientVars == <<provCaps, logger, pcalls>>

aggVars == <<op, plist, results, emitted, stream, promise, aggLog>>

facadeVars == <<disposed, debugVal, debugSrc, cfgSrc, gens, flist, waiting, sink, effects>>

logVars == <<runs>>

vars == <<poolVars, clientVars, aggVars, facadeVars, logVars>>

notPoolVars == <<clientVars, aggVars, facadeVars, logVars>>
notClientVars == <<poolVars, aggVars, facadeVars, logVars>>
notAggVars == <<poolVars, clientVars, facadeVars, logVars>>
notLogVars == <<poolVars, clientVars, aggVars, facadeVars>>

\* ---------------------------------------------------------------- bounds
MaxAdvances == 4
MaxCalls == 3
MaxClientCalls == 2
MaxProviders == 3

\* ------------------------------------------------------------- option values
\* An optional JavaScript value: <<>> is undefined, <<x>> is x.
None == <<>>
Some(x) == <<x>>

\* ---------------------------------------------------------------- the pool
\* ttl: 1000 * 60 * 5, the LRUCache option.
ttl == 1000 * 60 * 5

\* ttlResolution: 1000, the LRUCache option.
ttlResolution == 1000

\* The ProviderCacheKey values the pool is called with. authInfo is optional, and
\* so is its headers field; headers are listed in insertion order.
Identities ==
    { [providerUri |-> "p1", authInfo |-> None],
      [providerUri |-> "p1", authInfo |-> Some([headers |-> Some(<< <<"A", "1">> >>)])],
      [providerUri |-> "p2", authInfo |-> None] }

\* JSON.stringify of a headers object: its members in insertion order.
RECURSIVE StringifyHeaders(_)
StringifyHeaders(hs) ==
    IF hs = <<>> THEN <<>>
    ELSE <<hs[1][1], ":", hs[1][2]>> \o StringifyHeaders(Tail(hs))

\* JSON.stringify of an AuthInfo: a member whose value is undefined is left out.
StringifyAuthInfo(a) ==
    <<"{">> \o
    (IF a.headers = None THEN <<>>
     ELSE <<"headers", ":", "{">> \o StringifyHeaders(a.headers[1]) \o <<"}">>) \o
    <<"}">>

\* cacheKey(key) = JSON.stringify(key), as the sequence of the string's tokens.
\* (Faulty variant: the key is the providerUri alone.)
cacheKeyUriOnly(key) == <<"{", "providerUri", ":", key.providerUri, "}">>
cacheKey(key) ==
    <<"{", "providerUri", ":", key.providerUri>> \o
    (IF key.authInfo = None THEN <<>>
     ELSE <<"authInfo", ":">> \o StringifyAuthInfo(key.authInfo[1])) \o
    <<"}">>

CacheKeys == { cacheKey(k) : k \in Identities }

\* LRUCache.isStale, given the clock reading it uses:
\* (cachedNow || getNow()) - starts[index] > ttls[index].
\* (Faulty variant: the entry's age is tested against ttlResolution.)
IsStaleResolution(reading, start) == reading - start > ttlResolution
IsStale(reading, start) == reading - start > ttl

\* The clock reading of a staleness test: the debounced one if there is one,
\* else performance.now().
Reading == IF cachedNow # 0 THEN cachedNow ELSE now

\* getNow(): a fresh reading is kept for ttlResolution ms (a timer clears it).
TimersAfterReading ==
    IF cachedNow # 0 THEN timers
    ELSE timers \cup {[kind |-> "clearNow", due |-> now + ttlResolution, key |-> <<>>]}

\* The start time LRUCache.set records for an entry (setItemTTL: performance.now()).
StartOnSet == now

\* The entry cache.set stores on a miss.
StoredEntry == [client |-> nextClient, start |-> StartOnSet]

\* The start time of an entry after cache.get returned it (updateAgeOnGet is
\* not set: unchanged).
\* (Faulty variant: updateAgeOnGet, a read restarts the entry's lifetime.)
StartAfterGetTouched(e) == now
StartAfterGet(e) == e.start

\* getOrCreate(key, env): cache.get, and on a miss createProviderClient and
\* cache.set. A get of a stale entry deletes it and returns undefined.
PoolGetOrCreate(key) ==
    LET k == cacheKey(key)
        present == k \in DOMAIN cache
        stale == present /\ IsStale(Reading, cache[k].start)
        hit == present /\ ~stale
    IN  /\ cachedNow' = IF present THEN Reading ELSE cachedNow
        /\ IF hit
           THEN /\ cache' = [cache EXCEPT ![k].start = StartAfterGet(cache[k])]
                /\ timers' = IF present THEN TimersAfterReading ELSE timers
                /\ nextClient' = nextClient
                /\ calls' = Append(calls, [key |-> key, client |-> cache[k].client,
                                          at |-> now, created |-> FALSE])
           ELSE /\ cache' = [x \in DOMAIN cache \cup {k} |->
                                IF x = k THEN StoredEntry ELSE cache[x]]
                /\ timers' = (IF present THEN TimersAfterReading ELSE timers)
                                \cup {[kind |-> "autopurge", due |-> now + ttl + 1, key |-> k]}
                /\ nextClient' = nextClient + 1
                /\ calls' = Append(calls, [key |-> key, client |-> StoredEntry.client,
                                          at |-> now, created |-> TRUE])
        /\ UNCHANGED <<now, advances>>

\* A getOrCreate call on the pool alone.
getOrCreate(key) ==
    /\ Len(calls) < MaxCalls
    /\ PoolGetOrCreate(key)
    /\ UNCHANGED notPoolVars

\* A setTimeout callback of the LRUCache runs when it is due (timers are
\* named by the key of the entry they were set for):
\*   autopurge (ttlAutopurge): if (isStale(index)) delete(key)
\*   clearNow (ttlResolution): cachedNow = 0
FireTimer(t) ==
    /\ t \in timers
    /\ t.due <= now
    /\ timers' = (IF t.kind = "autopurge" /\ t.key \in DOMAIN cache
                  THEN TimersAfterReading ELSE timers) \ {t}
    /\ IF t.kind = "autopurge"
       THEN /\ cachedNow' = IF t.key \in DOMAIN cache THEN Reading ELSE cachedNow
            /\ cache' = IF t.key \in DOMAIN cache /\ IsStale(Reading, cache[t.key].start)
                        THEN [x \in DOMAIN cache \ {t.key} |-> cache[x]]
                        ELSE cache
       ELSE /\ cachedNow' = 0
            /\ cache' = cache
    /\ UNCHANGED <<now, advances, nextClient, calls>>
    /\ UNCHANGED notPoolVars

\* The steps by which the clock is advanced.
TimeSteps == {1, ttlResolution, ttl - 1}

Min(a, b) == IF a < b THEN a ELSE b

\* Time passes, up to the next timer that is due: a due timer runs before the
\* clock moves on.
Advance(d) ==
    /\ advances < MaxAdvances
    /\ \A t \in timers : t.due > now
    /\ LET next == IF timers = {} THEN now + d
                   ELSE Min(now + d, CHOOSE m \in {t.due : t \in timers} :
                                        \A t \in timers : m <= t.due)
       IN now' = next
    /\ advances' = advances + 1
    /\ UNCHANGED <<cache, cachedNow, timers, nextClient, calls>>
    /\ UNCHANGED notPoolVars

\* ------------------------------------------------------ the ProviderClient
\* Outcomes of a call (of the transport or of the ProviderClient): a value
\* (a list), null, or an error; Pending while the call has not settled.
Value(v) == [kind |-> "value", val |-> v]
Null == [kind |-> "null", val |-> <<>>]
Error(e) == [kind |-> "error", val |-> <<e>>]
Pending == [kind |-> "pending", val |-> <<>>]

\* The resources of the requests: uri and (optional) content.
GoUri == "file:///a/b.go"
TsUri == "file:///a/b.ts"
Resources ==
    { [uri |-> GoUri, content |-> Some(<<"x", "y">>)],
      [uri |-> TsUri, content |-> Some(<<"y">>)],
      [uri |-> GoUri, content |-> None] }

\* The selectors a provider may declare: path (a glob) and contentContains
\* (a literal string), both optional.
GoSelector == [path |-> Some("**/*.go"), contentContains |-> None]
XSelector == [path |-> None, contentContains |-> Some(<<"x">>)]

\* CapabilitiesResult values: selector is undefined, or an array of selectors.
CapabilitiesResults ==
    { [selector |-> None],
      [selector |-> Some(<< >>)],
      [selector |-> Some(<<GoSelector>>)],
      [selector |-> Some(<<GoSelector, XSelector>>)] }

\* What the transport's items and annotations calls may answer.
TransportErrors == {"itemsThrow", "annotationsThrow"}
TransportAnswers ==
    {Value(<< >>), Value(<<"A">>), Null} \cup {Error(e) : e \in TransportErrors}

\* The path glob primitive: "**/*.go" matches the URIs ending in .go.
GlobMatches(glob, uri) ==
    CASE glob = "**/*.go" -> uri = GoUri
      [] OTHER -> TRUE

\* A literal substring test.
Contains(needle, text) ==
    \E i \in 0..(Len(text) - Len(needle)) :
        SubSeq(text, i + 1, i + Len(needle)) = needle

\* A selector is satisfied if each of its present conditions holds; a
\* contentContains condition fails when the content is absent.
matchSelector(sel, params) ==
    /\ sel.path # None => GlobMatches(sel.path[1], params.uri)
    /\ sel.contentContains # None =>
          (params.content # None /\ Contains(sel.contentContains[1], params.content[1]))

\* matchSelectors(selectors)(params): undefined matches every resource, the
\* empty array none, and of a non-empty array every selector must be satisfied.
\* (Faulty variant: one satisfied selector of the array is enough.)
matchSelectorsAny(selectors, params) ==
    IF selectors = None THEN TRUE
    ELSE \E i \in 1..Len(selectors[1]) : matchSelector(selectors[1][i], params)
matchSelectors(selectors, params) ==
    IF selectors = None THEN TRUE
    ELSE IF selectors[1] = << >> THEN FALSE
    ELSE \A i \in 1..Len(selectors[1]) : matchSelector(selectors[1][i], params)

\* logger?.(message): the message is recorded if a logger was given. The
\* logger is a Logger, (message: string) => void: it returns to its caller.
Log(logs, message) == IF logger THEN Append(logs, message) ELSE logs

\* The transport calls an items call makes when it starts: transport.items.
\* (Faulty variant: items asks for the capabilities first.)
ItemsTransportCallsGated == <<"capabilities", "items">>
ItemsTransportCalls == <<"items">>

\* items(params, settings) starts: await transport.items(params, settings).
CallItems(params) ==
    /\ Len(pcalls) < MaxClientCalls
    /\ pcalls' = Append(pcalls, [method |-> "items", params |-> params, pc |-> "items",
                                  trace |-> ItemsTransportCalls, caps |-> Pending,
                                  answer |-> Pending, outcome |-> Pending,
                                  logs |-> << >>])
    /\ UNCHANGED <<provCaps, logger>>
    /\ UNCHANGED notClientVars

\* annotations(params, settings) starts: await transport.capabilities({}, settings).
CallAnnotations(params) ==
    /\ Len(pcalls) < MaxClientCalls
    /\ pcalls' = Append(pcalls, [method |-> "annotations", params |-> params, pc |-> "capabilities",
                                  trace |-> <<"capabilities">>, caps |-> Pending,
                                  answer |-> Pending, outcome |-> Pending,
                                  logs |-> Log(<< >>, "checking provider capabilities")])
    /\ UNCHANGED <<provCaps, logger>>
    /\ UNCHANGED notClientVars

\* What a call settles with when the transport call it awaited has answered:
\* return await transport.m(...), or catch (error) { ...; return Promise.reject(error) }.
\* (Faulty variant: a failure becomes the empty list.)
SettleSwallowed(answer) == IF answer.kind = "error" THEN Value(<< >>) ELSE answer
Settle(answer) == answer

\* What annotations settles with when capability discovery has thrown:
\* return Promise.reject(error).
\* (Faulty variant: a capability error is taken for "not applicable".)
OnCapabilitiesErrorNull(error) == Null
OnCapabilitiesError(error) == error

\* The selector handed to matchSelectors: capabilities.selector.
\* (Faulty variant: an empty selector array is taken for undefined.)
SelectorOfEmptyAsAll(capabilities) ==
    IF capabilities.selector = Some(<< >>) THEN None ELSE capabilities.selector
SelectorOf(capabilities) == capabilities.selector

\* const capable = match(params); if (!capable) return null.
\* (Faulty variant: the gate is not applied.)
CapableAlways(selectors, params) == TRUE
Capable(selectors, params) == matchSelectors(selectors, params)

\* The transport's items call of call c answers.
TransportItemsAnswers(c, answer) ==
    /\ c \in 1..Len(pcalls)
    /\ pcalls[c].pc = "items"
    /\ pcalls' = [pcalls EXCEPT
          ![c].pc = "done",
          ![c].answer = answer,
          ![c].outcome = Settle(answer),
          ![c].logs = IF answer.kind = "error"
                      THEN Log(@, "failed to get items") ELSE @]
    /\ UNCHANGED <<provCaps, logger>>
    /\ UNCHANGED notClientVars

\* The transport's capabilities call of call c answers: with the provider's
\* capabilities, or with its error.
TransportCapabilitiesAnswers(c) ==
    /\ c \in 1..Len(pcalls)
    /\ pcalls[c].pc = "capabilities"
    /\ IF provCaps.kind = "error"
       THEN pcalls' = [pcalls EXCEPT
                ![c].pc = "done",
                ![c].caps = provCaps,
                ![c].outcome = OnCapabilitiesError(provCaps),
                ![c].logs = Log(@, "failed to get provider capabilities")]
       ELSE LET capable == Capable(SelectorOf(provCaps.val[1]), pcalls[c].params)
                received == Log(pcalls[c].logs, "received capabilities")
            IN IF ~capable
               THEN pcalls' = [pcalls EXCEPT
                        ![c].pc = "done",
                        ![c].caps = provCaps,
                        ![c].outcome = Null,
                        ![c].logs = Log(received, "skipping items")]
               ELSE pcalls' = [pcalls EXCEPT
                        ![c].pc = "annotations",
                        ![c].caps = provCaps,
                        ![c].trace = Append(@, "annotations"),
                        ![c].logs = received]
    /\ UNCHANGED <<provCaps, logger>>
    /\ UNCHANGED notClientVars

\* The transport's annotations call of call c answers.
TransportAnnotationsAnswers(c, answer) ==
    /\ c \in 1..Len(pcalls)
    /\ pcalls[c].pc = "annotations"
    /\ pcalls' = [pcalls EXCEPT
          ![c].pc = "done",
          ![c].answer = answer,
          ![c].outcome = Settle(answer),
          ![c].logs = IF answer.kind = "error"
                      THEN Log(@, "failed to get annotations") ELSE @]
    /\ UNCHANGED <<provCaps, logger>>
    /\ UNCHANGED notClientVars

\* What the provider's capabilities method may do: return a result or throw.
CapabilitiesBehaviours ==
    {Value(<<r>>) : r \in CapabilitiesResults} \cup {Error("capabilitiesThrow")}

ClientIdle ==
    /\ provCaps = Value(<<[selector |-> None]>>)
    /\ logger = FALSE
    /\ pcalls = << >>

ClientInit ==
    /\ provCaps \in CapabilitiesBehaviours
    /\ logger \in BOOLEAN
    /\ pcalls = << >>

\* ------------------------------------------- the facade's combined streams
\* The operations of the Client returned by createClient.
PullOperations == {"items", "annotations"}
PushOperations == {"itemsChanges", "annotationsChanges"}
Operations == PullOperations \cup PushOperations

\* The emitPartial option each operation passes to itemsChanges/annotationsChanges:
\*   items: itemsChanges(params, { emitPartial: false }), itemsChanges: true,
\*   annotations: annotationsChanges(params, { emitPartial: false }),
\*   annotationsChanges: true.
\* (Faulty variants: every operation passes the same emitPartial.)
EmitPartialAlways(o) == TRUE
EmitPartialNever(o) == FALSE
EmitPartialOf(o) == o \in PushOperations

\* The providers of a list of n providers, in the list's order.
ProviderIdx == 1..(IF plist = None THEN 0 ELSE plist[1])

\* The item provider i answers with.
ItemOf(i) == i

\* What a provider's call may settle with: items, no items, null (an annotations
\* call the selector gated out), or an error.
ProviderOutcomes(i) ==
    {Value(<<ItemOf(i)>>), Value(<< >>), Null, Error("itemsThrow")}

\* A provider's contribution to the combined result: its items; the empty list
\* if its call failed, returned null, or has not settled.
Contribution(outcome) == IF outcome.kind = "value" THEN outcome.val ELSE << >>

\* The combined result: the concatenation of the contributions, in list order.
\* (Faulty variant: the contributions are concatenated last provider first.)
RECURSIVE CombinedReversed(_, _)
CombinedReversed(res, n) ==
    IF n = 0 THEN << >> ELSE Contribution(res[n]) \o CombinedReversed(res, n - 1)
RECURSIVE Combined(_, _)
Combined(res, n) ==
    IF n = 0 THEN << >> ELSE Combined(res, n - 1) \o Contribution(res[n])

\* The providers of the list whose call has settled, given the results.
ProducedIn(res) == {i \in DOMAIN res : res[i].kind # "pending"}

\* The emission policy: with emitPartial a snapshot is emitted whenever a
\* provider has produced; without, only once every provider has produced.
ShouldEmit(emitPartial, res) == emitPartial \/ ProducedIn(res) = DOMAIN res

\* The combined stream after a provider's call settled: a failure is caught at
\* the provider's boundary and does not reach the stream.
\* (Faulty variant: the failure reaches the combined stream.)
StreamAfterPropagating(outcome) == IF outcome.kind = "error" THEN "errored" ELSE stream
StreamAfter(outcome) == stream

\* A snapshot is emitted: a pull operation's promise (firstValueFrom) resolves
\* with the first one and unsubscribes.
Emit(res, n, streamNow) ==
    /\ emitted' = Append(emitted, [snapshot |-> Combined(res, n), produced |-> ProducedIn(res)])
    /\ IF op \in PullOperations
       THEN /\ promise' = Value(Combined(res, n))
            /\ stream' = "unsubscribed"
       ELSE /\ promise' = promise
            /\ stream' = streamNow

\* The host calls one of the Client's operations (and subscribes to the stream).
Subscribe(o) ==
    /\ op = "none"
    /\ op' = o
    /\ UNCHANGED <<plist, results, emitted, stream, promise, aggLog>>
    /\ UNCHANGED notAggVars

\* providerClientsWithSettings emits a list of n providers: the engine calls
\* each of them; of an empty list the combined result is the empty list.
ProviderListEmits(n) ==
    /\ op # "none"
    /\ stream = "open"
    /\ plist = None
    /\ plist' = Some(n)
    /\ results' = [i \in 1..n |-> Pending]
    /\ IF n = 0
       THEN Emit(results', n, stream)
       ELSE UNCHANGED <<emitted, stream, promise>>
    /\ UNCHANGED <<op, aggLog>>
    /\ UNCHANGED notAggVars

\* The call of provider i settles: what the engine does with it.
EngineSettles(i, outcome) ==
    /\ stream = "open"
    /\ i \in ProviderIdx
    /\ results[i] = Pending
    /\ results' = [results EXCEPT ![i] = outcome]
    /\ aggLog' = IF outcome.kind = "error" THEN Append(aggLog, i) ELSE aggLog
    /\ IF StreamAfter(outcome) = "errored"
       THEN /\ stream' = "errored"
            /\ promise' = IF op \in PullOperations THEN outcome ELSE promise
            /\ emitted' = emitted
       ELSE IF ShouldEmit(EmitPartialOf(op), results')
            THEN Emit(results', plist[1], StreamAfter(outcome))
            ELSE UNCHANGED <<emitted, stream, promise>>
    /\ UNCHANGED <<op, plist>>

\* The call of provider i settles, the engine alone.
ProviderSettles(i, outcome) ==
    /\ EngineSettles(i, outcome)
    /\ UNCHANGED notAggVars

AggIdle ==
    /\ op = "none"
    /\ plist = None
    /\ results = << >>
    /\ emitted = << >>
    /\ stream = "open"
    /\ promise = Pending
    /\ aggLog = << >>

\* ------------------------------------------------------------- the facade
\* How many values the host's sources (the configuration, for the operation
\* and for the debug flag, and the credentials) emit in a run.
MaxEmissions == 3

\* The configurations the host supplies (ConfigurationUserInput): enable,
\* debug, and the providers in their order, each with its settings.
P1 == [providerUri |-> "p1", settings |-> "s1"]
P2 == [providerUri |-> "p2", settings |-> "s2"]
Configurations ==
    { [enable |-> Some(TRUE),  debug |-> FALSE, providers |-> <<P1, P2>>],
      [enable |-> Some(TRUE),  debug |-> TRUE,  providers |-> <<P2>>],
      [enable |-> Some(FALSE), debug |-> TRUE,  providers |-> <<P1, P2>>],
      [enable |-> None,        debug |-> FALSE, providers |-> <<P1>>] }

\* The values the host's sources have emitted so far.
Emissions ==
    effects.callbacks + effects.debugCallbacks + effects.pool + effects.failures

\* What env.authInfo(providerUri) emits: null, or an AuthInfo.
NullAuth == [null |-> TRUE]
AuthA == [headers |-> Some(<< <<"A", "1">> >>)]
Credentials == {NullAuth, AuthA}

\* More of them, for the pool's keys: no value at all (undefined), and the
\* same two headers put into the headers object in either order.
AbsentAuth == [absent |-> TRUE]
AuthAB == [headers |-> Some(<< <<"A", "1">>, <<"B", "2">> >>)]
AuthBA == [headers |-> Some(<< <<"B", "2">>, <<"A", "1">> >>)]
KeyCredentials == {NullAuth, AbsentAuth, AuthA, AuthAB, AuthBA}
ProviderUris == {"p1", "p2"}

\* if (!config.enable) { config = { ...config, providers: {} } }
\* (Faulty variants: the providers are kept whatever enable says; they are
\* kept unless enable is false.)
ProvidersIgnoringEnable(config) == config.providers
ProvidersUnlessDisabled(config) ==
    IF config.enable = Some(FALSE) THEN << >> ELSE config.providers
ProvidersInForce(config) ==
    IF config.enable = Some(TRUE) THEN config.providers ELSE << >>

\* configurationFromUserInput: the providers as a list of
\* { providerUri, settings } in the configuration's order, and debug.
configurationFromUserInput(config) ==
    [debug |-> config.debug, providers |-> config.providers]

\* The configuration the provider-list pipeline works with.
Resolved(config) ==
    configurationFromUserInput([config EXCEPT !.providers = ProvidersInForce(config)])

\* The pool key the facade asks for: { providerUri, authInfo: authInfo ?? undefined }.
KeyOf(providerUri, authInfo) ==
    [providerUri |-> providerUri,
     authInfo |-> IF authInfo \in {NullAuth, AbsentAuth} THEN None ELSE Some(authInfo)]

\* The facade asks the pool for the client of a provider and its credentials:
\* providerCache.getOrCreate({ providerUri, authInfo: authInfo ?? undefined }, ...).
LookUp(providerUri, authInfo) == getOrCreate(KeyOf(providerUri, authInfo))

\* What a provider's credential watch contributes once it failed:
\* catchError(error => { logger(...); return of(null) }).
\* (Faulty variant: the failure reaches the provider-list stream.)
OnCredentialErrorPropagating == "error"
OnCredentialError == "null"

\* combineLatest emits once every provider's watch has emitted.
\* (Faulty variant: it emits as soon as one watch has emitted.)
AnyResolved(gen) == \E i \in DOMAIN gen.creds : gen.creds[i].kind # "pending"
AllResolved(gen) == \A i \in DOMAIN gen.creds : gen.creds[i].kind # "pending"

\* providerClients.filter(pc => pc !== null), over combineLatest's array.
RECURSIVE ListOf(_, _, _)
ListOf(gen, g, n) ==
    IF n = 0 THEN << >>
    ELSE IF gen.creds[n].kind # "value" THEN ListOf(gen, g, n - 1)
    ELSE Append(ListOf(gen, g, n - 1),
                [providerUri |-> gen.providers[n].providerUri,
                 settings |-> gen.providers[n].settings,
                 client |-> gen.creds[n].client[1], gen |-> g])

\* A message as env.logger receives it, with the debug flag in force then.
Stamp(msgs, from) ==
    [k \in 1..Len(msgs) |-> [text |-> msgs[k], from |-> from, debug |-> debugVal]]

\* logger(message) of createClient: firstValueFrom(debug).then(debug => { if
\* (debug) env.logger?.(message) }): delivered if debug's replayed value is
\* true, dropped if it is false, held while debug has no value yet.
WaitingAfter(msgs, from) ==
    IF debugVal = None THEN waiting \o Stamp(msgs, from) ELSE waiting
SinkAfterGated(msgs, from) ==
    IF debugVal = Some(TRUE) THEN sink \o Stamp(msgs, from) ELSE sink

\* The logger the facade hands to the aggregation engine: env.logger itself.
SinkAfterEngine(sinkNow, msgs) == sinkNow \o Stamp(msgs, "engine")

\* firstValueFrom(..., { defaultValue: [] }): what the promise of a pull
\* operation settles with when the stream completes without a value.
\* (Faulty variant: firstValueFrom without a default rejects with EmptyError.)
OnEmptyRejects == Error("EmptyError")
OnEmpty == Value(<< >>)

\* The engine receives a provider list: it calls every provider of it; of an
\* empty list the combined result is the empty list.
HandOver(list) ==
    /\ flist' = list
    /\ plist' = Some(Len(list))
    /\ results' = [i \in 1..Len(list) |-> Pending]
    /\ IF Len(list) = 0
       THEN Emit(results', 0, stream)
       ELSE UNCHANGED <<emitted, stream, promise>>

\* The engine's part of the state is left alone.
NoHandOver == UNCHANGED <<flist, plist, results, emitted, stream, promise>>

\* env.configuration(...) emits a configuration on the operation's stream: the
\* map callback resolves it, and mergeMap starts a credential watch
\* (env.authInfo(providerUri)) per provider, or emits the empty list.
ConfigurationEmits(config) ==
    LET provs == Resolved(config).providers
        n == Len(provs)
    IN  /\ op # "none"
        /\ stream = "open"
        /\ cfgSrc = "open"
        /\ Emissions < MaxEmissions
        /\ gens' = Append(gens, [config |-> config, providers |-> provs,
                                 creds |-> [i \in 1..n |-> [kind |-> "pending", client |-> None]]])
        /\ effects' = [effects EXCEPT !.callbacks = @ + 1, !.authInfo = @ + n]
        /\ IF n = 0 THEN HandOver(<< >>) ELSE NoHandOver
        /\ UNCHANGED <<op, aggLog, disposed, debugVal, debugSrc, cfgSrc, waiting, sink>>
        /\ UNCHANGED <<poolVars, clientVars, logVars>>

\* The credential watch of provider i of generation g emits authInfo: the map
\* callback asks the pool for the client; combineLatest emits the list once
\* every provider of the generation has a value.
CredentialEmits(g, i, authInfo) ==
    /\ op # "none"
    /\ stream = "open"
    /\ g \in 1..Len(gens)
    /\ i \in 1..Len(gens[g].creds)
    /\ gens[g].creds[i].kind \in {"pending", "value"}
    /\ Emissions < MaxEmissions
    /\ PoolGetOrCreate(KeyOf(gens[g].providers[i].providerUri, authInfo))
    /\ gens' = [gens EXCEPT ![g].creds[i] =
                   [kind |-> "value", client |-> Some(calls'[Len(calls')].client)]]
    /\ IF AllResolved(gens'[g])
       THEN /\ HandOver(ListOf(gens'[g], g, Len(gens'[g].creds)))
            /\ effects' = [effects EXCEPT !.pool = @ + 1, !.calls = @ + Len(flist')]
       ELSE /\ NoHandOver
            /\ effects' = [effects EXCEPT !.pool = @ + 1]
    /\ UNCHANGED <<op, aggLog, disposed, debugVal, debugSrc, cfgSrc, waiting, sink>>
    /\ UNCHANGED <<clientVars, logVars>>

\* The credential watch of provider i of generation g fails (or constructing
\* the client does): the failure is logged and the provider becomes null.
CredentialFails(g, i) ==
    /\ op # "none"
    /\ stream = "open"
    /\ g \in 1..Len(gens)
    /\ i \in 1..Len(gens[g].creds)
    /\ gens[g].creds[i].kind \in {"pending", "value"}
    /\ Emissions < MaxEmissions
    /\ waiting' = WaitingAfter(<<"Error creating provider client">>, "facade")
    /\ sink' = SinkAfterGated(<<"Error creating provider client">>, "facade")
    /\ IF OnCredentialError = "error"
       THEN /\ stream' = "errored"
            /\ promise' = IF op \in PullOperations THEN Error("authInfo") ELSE promise
            /\ effects' = [effects EXCEPT !.failures = @ + 1]
            /\ UNCHANGED <<gens, flist, plist, results, emitted>>
       ELSE /\ gens' = [gens EXCEPT ![g].creds[i] = [kind |-> OnCredentialError, client |-> None]]
            /\ IF AllResolved(gens'[g])
               THEN /\ HandOver(ListOf(gens'[g], g, Len(gens'[g].creds)))
                    /\ effects' = [effects EXCEPT !.failures = @ + 1, !.calls = @ + Len(flist')]
               ELSE /\ NoHandOver
                    /\ effects' = [effects EXCEPT !.failures = @ + 1]
    /\ UNCHANGED <<op, aggLog, disposed, debugVal, debugSrc, cfgSrc>>
    /\ UNCHANGED <<poolVars, clientVars, logVars>>

\* The call of provider i of the current list settles. A failure is logged by
\* the ProviderClient (through the gated logger the pool was given) and by the
\* engine (through the logger the facade gave it).
FacadeProviderSettles(i, outcome) ==
    /\ op # "none"
    /\ EngineSettles(i, outcome)
    /\ IF outcome.kind = "error"
       THEN /\ waiting' = WaitingAfter(<<"failed to get items">>, "providerClient")
            /\ sink' = SinkAfterEngine(SinkAfterGated(<<"failed to get items">>, "providerClient"),
                                       <<"failed to get items">>)
       ELSE UNCHANGED <<waiting, sink>>
    /\ UNCHANGED <<disposed, debugVal, debugSrc, cfgSrc, gens, flist, effects>>
    /\ UNCHANGED <<poolVars, clientVars, logVars>>

\* env.configuration() emits on the debug pipeline: the map callback runs,
\* distinctUntilChanged passes a changed flag on, shareReplay(1) keeps it, and
\* the messages held for debug's first value are delivered or dropped.
DebugConfigurationEmits(config) ==
    LET d == configurationFromUserInput(config).debug
    IN  /\ debugSrc = "open"
        /\ Emissions < MaxEmissions
        /\ effects' = [effects EXCEPT !.debugCallbacks = @ + 1]
        /\ debugVal' = Some(d)
        /\ waiting' = << >>
        /\ sink' = IF d THEN sink \o [k \in 1..Len(waiting) |-> [waiting[k] EXCEPT !.debug = Some(d)]]
                   ELSE sink
        /\ UNCHANGED <<disposed, debugSrc, cfgSrc, gens, flist>>
        /\ UNCHANGED <<poolVars, clientVars, aggVars, logVars>>

\* What dispose() leaves of the debug pipeline's subscription to
\* env.configuration(): it unsubscribes the subscriptions array, which holds
\* debug.subscribe() only; shareReplay(1) does not count references, so the
\* source stays subscribed.
DebugSrcAfterDispose == debugSrc

\* dispose(): for (const sub of subscriptions) sub.unsubscribe().
Dispose ==
    /\ ~disposed
    /\ disposed' = TRUE
    /\ debugSrc' = DebugSrcAfterDispose
    /\ UNCHANGED <<debugVal, cfgSrc, gens, flist, waiting, sink, effects>>
    /\ UNCHANGED <<poolVars, clientVars, aggVars, logVars>>

\* The host unsubscribes from the stream of itemsChanges/annotationsChanges:
\* the configuration watch and the credential watches go with it.
Unsubscribe ==
    /\ op \in PushOperations
    /\ stream = "open"
    /\ stream' = "unsubscribed"
    /\ UNCHANGED <<op, plist, results, emitted, promise, aggLog>>
    /\ UNCHANGED <<disposed, debugVal, debugSrc, cfgSrc, gens, flist, waiting, sink, effects>>
    /\ UNCHANGED <<poolVars, clientVars, logVars>>

\* The operation's configuration source fails: nothing catches the error on its
\* way to the combined stream, and firstValueFrom rejects with it.
ConfigurationFails ==
    /\ op # "none"
    /\ stream = "open"
    /\ cfgSrc = "open"
    /\ cfgSrc' = "errored"
    /\ stream' = "errored"
    /\ promise' = IF op \in PullOperations THEN Error("configuration") ELSE promise
    /\ UNCHANGED <<op, plist, results, emitted, aggLog>>
    /\ UNCHANGED <<disposed, debugVal, debugSrc, gens, flist, waiting, sink, effects>>
    /\ UNCHANGED <<poolVars, clientVars, logVars>>

\* The operation's configuration source completes. If it never emitted, the
\* combined stream completes without a value; otherwise the credential watches
\* and provider calls it started go on.
ConfigurationCompletes ==
    /\ op # "none"
    /\ stream = "open"
    /\ cfgSrc = "open"
    /\ cfgSrc' = "completed"
    /\ IF gens = << >>
       THEN /\ stream' = "completed"
            /\ promise' = IF op \in PullOperations THEN OnEmpty ELSE promise
       ELSE UNCHANGED <<stream, promise>>
    /\ UNCHANGED <<op, plist, results, emitted, aggLog>>
    /\ UNCHANGED <<disposed, debugVal, debugSrc, gens, flist, waiting, sink, effects>>
    /\ UNCHANGED <<poolVars, clientVars, logVars>>

NoEffects ==
    [callbacks |-> 0, debugCallbacks |-> 0, authInfo |-> 0, pool |-> 0, failures |-> 0,
     calls |-> 0]

LogIdle == runs = << >>

FacadeIdle ==
    /\ disposed = FALSE
    /\ debugVal = None
    /\ debugSrc = "open"
    /\ cfgSrc = "open"
    /\ gens = << >>
    /\ flist = << >>
    /\ waiting = << >>
    /\ sink = << >>
    /\ effects = NoEffects

\* -------------------------------------- a ProviderClient call and its logger
\* What createProviderClient may be given as logger: none, a function that
\* returns, a function that throws.
LoggerKinds == {"none", "returns", "throws"}

\* scopedLogger(logger, scope): no logger gives no logger; otherwise a
\* function handing the message, prefixed with the scope, to the logger.
scopedLogger(lg) == lg

\* logger?.(message) throws.
LogThrows(lg) == scopedLogger(lg) = "throws"
LoggerError == Error("loggerThrow")

\* catch (error) { logger?.(...); return Promise.reject(error) }
AfterCatch(lg, error) == IF LogThrows(lg) THEN LoggerError ELSE error

\* items(params, settings) as a whole: the transport calls made, and what the
\* returned promise settles with.
ItemsUnder(lg, answer) ==
    [trace |-> ItemsTransportCalls,
     outcome |-> IF answer.kind = "error" THEN AfterCatch(lg, Settle(answer)) ELSE Settle(answer)]

\* annotations(params, settings) as a whole. Its first statement, inside the
\* try, is logger?.('checking provider capabilities'): a logger that throws
\* takes the call to the catch before any transport call.
AnnotationsUnder(lg, caps, params, answer) ==
    IF LogThrows(lg)
    THEN [trace |-> << >>, outcome |-> AfterCatch(lg, LoggerError)]
    ELSE IF caps.kind = "error"
    THEN [trace |-> <<"capabilities">>, outcome |-> AfterCatch(lg, OnCapabilitiesError(caps))]
    ELSE IF ~Capable(SelectorOf(caps.val[1]), params)
    THEN [trace |-> <<"capabilities">>, outcome |-> Null]
    ELSE [trace |-> <<"capabilities", "annotations">>,
          outcome |-> IF answer.kind = "error" THEN AfterCatch(lg, Settle(answer))
                      ELSE Settle(answer)]

\* One call, made on ProviderClients that differ in their logger only.
CallUnderEachLogger(method, params, caps, answer) ==
    /\ runs = << >>
    /\ runs' = <<[method |-> method, params |-> params, caps |-> caps, answer |-> answer,
                  under |-> [lg \in LoggerKinds |->
                                IF method = "items" THEN ItemsUnder(lg, answer)
                                ELSE AnnotationsUnder(lg, caps, params, answer)]]>>
    /\ UNCHANGED notLogVars

\* ---------------------------------------------------------- claims: the pool
\* The calls of the history, by position.
CallIdx == 1..Len(calls)

\* Call j asks for the identity whose entry call m stored.
SameIdentityAfter(m, j) ==
    /\ m < j
    /\ calls[m].created
    /\ calls[j].key = calls[m].key

\* C1: two getOrCreate calls with equal identities that both happen less than
\* the TTL after the first of them stored the entry return the same instance:
\* every call made while the stored entry is live returns the stored client.
C1_SameInstanceWhileLive ==
    \A m, j \in CallIdx :
        (SameIdentityAfter(m, j) /\ calls[j].at - calls[m].at < ttl)
            => calls[j].client = calls[m].client

\* C1 witness: an entry stored by a miss is read again later in its TTL
\* window, after another identity has been stored too.
C1_Witness ==
    \E m, j \in CallIdx :
        /\ SameIdentityAfter(m, j)
        /\ calls[j].at > calls[m].at
        /\ calls[j].at - calls[m].at < ttl
        /\ ~calls[j].created
        /\ \E i \in CallIdx : calls[i].key # calls[m].key

\* Call j is the first call for the identity of call m made `age` or more
\* after call m stored its entry.
FirstCallFrom(m, j, age) ==
    /\ SameIdentityAfter(m, j)
    /\ calls[j].at - calls[m].at >= age
    /\ \A i \in CallIdx :
          (m < i /\ i < j /\ calls[i].key = calls[m].key)
              => calls[i].at - calls[m].at < age

\* C2 as stated: once the TTL has passed since the entry was stored, the next
\* getOrCreate for the identity constructs a new instance.
C2_NewInstanceOnceTtlPassed ==
    \A m, j \in CallIdx :
        FirstCallFrom(m, j, ttl)
            => (calls[j].created /\ calls[j].client # calls[m].client)

\* C2 as amended: reads never extend an entry's lifetime, which is measured
\* from the store with the cache's clock reading, taken at most once per
\* ttlResolution: every getOrCreate made more than ttl + ttlResolution after the
\* entry was stored returns an instance distinct from the stored one, however
\* many calls read the entry before.
C2_NewInstanceAfterTtlAndResolution ==
    \A m, j \in CallIdx :
        (SameIdentityAfter(m, j) /\ calls[j].at - calls[m].at > ttl + ttlResolution)
            => calls[j].client # calls[m].client

\* C2 witness: an entry is stored, read later in its TTL window, and asked for
\* again more than ttl + ttlResolution after the store: that call constructs.
C2_Witness ==
    \E m, i, j \in CallIdx :
        /\ SameIdentityAfter(m, i)
        /\ ~calls[i].created
        /\ calls[i].at > calls[m].at
        /\ i < j
        /\ calls[j].key = calls[m].key
        /\ calls[j].at - calls[m].at > ttl + ttlResolution
        /\ calls[j].created

\* ------------------------------------------------ claims: the ProviderClient
PCallIdx == 1..Len(pcalls)

\* How many times call c has invoked the transport's method m.
Invocations(c, m) ==
    Cardinality({k \in 1..Len(pcalls[c].trace) : pcalls[c].trace[k] = m})

EmptySelectorProvider == provCaps = Value(<<[selector |-> Some(<< >>)]>>)

\* C3: for a provider whose capabilities have selector [], no annotations
\* call, whatever its resource and however many calls are made, invokes the
\* transport's annotations method.
C3_EmptySelectorNeverInvoked ==
    EmptySelectorProvider
        => \A c \in PCallIdx : Invocations(c, "annotations") = 0

\* C3 witness: two annotations calls on different resources, one a .go file
\* with content, have completed on a provider with selector [].
C3_Witness ==
    /\ EmptySelectorProvider
    /\ Len(pcalls) = 2
    /\ \A c \in PCallIdx : pcalls[c].method = "annotations" /\ pcalls[c].pc = "done"
    /\ pcalls[1].params # pcalls[2].params
    /\ pcalls[1].params = [uri |-> GoUri, content |-> Some(<<"x", "y">>)]

\* C4: when capability discovery fails in an annotations call, the call
\* rejects with that failure (it resolves neither to null nor to a list) and
\* does not invoke the transport's annotations method.
C4_CapabilityFailurePropagates ==
    \A c \in PCallIdx :
        (pcalls[c].method = "annotations" /\ pcalls[c].caps.kind = "error")
            => /\ pcalls[c].outcome = pcalls[c].caps
               /\ pcalls[c].outcome.kind = "error"
               /\ Invocations(c, "annotations") = 0

\* C4 witness: an annotations call whose capability discovery failed has
\* settled.
C4_Witness ==
    \E c \in PCallIdx :
        /\ pcalls[c].method = "annotations"
        /\ pcalls[c].caps = Error("capabilitiesThrow")
        /\ pcalls[c].pc = "done"

\* C5: in every annotations call capability discovery is called first; the
\* transport's annotations method is invoked at most once, and only after
\* discovery has succeeded and the selector matcher has accepted the resource;
\* when the matcher rejects, the call resolves to null without invoking it.
C5_GateOrder ==
    \A c \in PCallIdx :
        pcalls[c].method = "annotations"
            => /\ pcalls[c].trace \in {<<"capabilities">>, <<"capabilities", "annotations">>}
               /\ Invocations(c, "annotations") = 1
                    => /\ pcalls[c].caps.kind = "value"
                       /\ matchSelectors(pcalls[c].caps.val[1].selector, pcalls[c].params)
               /\ (/\ pcalls[c].caps.kind = "value"
                   /\ ~matchSelectors(pcalls[c].caps.val[1].selector, pcalls[c].params))
                    => /\ pcalls[c].outcome = Null
                       /\ Invocations(c, "annotations") = 0

\* C5 witness: on a provider with selector [{path: "**/*.go"}], one
\* annotations call on a .go file has gone on to the transport's annotations
\* method and one on a .ts file has resolved to null.
C5_Witness ==
    /\ provCaps = Value(<<[selector |-> Some(<<GoSelector>>)]>>)
    /\ \E c \in PCallIdx :
          pcalls[c].params.uri = GoUri /\ pcalls[c].trace = <<"capabilities", "annotations">>
    /\ \E c \in PCallIdx :
          /\ pcalls[c].params.uri = TsUri
          /\ pcalls[c].method = "annotations"
          /\ pcalls[c].outcome = Null

\* C6: a ProviderClient call surfaces the transport's outcome unchanged: an
\* items call, and an annotations call that passed the gate, settles with
\* exactly the value or the error of its transport call.
C6_TransportOutcomeUnchanged ==
    \A c \in PCallIdx :
        /\ pcalls[c].answer # Pending => pcalls[c].outcome = pcalls[c].answer
        /\ (pcalls[c].pc = "done" /\ pcalls[c].method = "items") => pcalls[c].answer # Pending
        /\ (pcalls[c].pc = "done" /\ Invocations(c, "annotations") = 1)
              => pcalls[c].answer # Pending

\* C6 witness: on a provider whose capabilities are {} (selector undefined),
\* as in methodsThrow.js, an items call has rejected with itemsThrow and an
\* annotations call with annotationsThrow.
C6_Witness ==
    /\ provCaps = Value(<<[selector |-> None]>>)
    /\ \E c \in PCallIdx :
          pcalls[c].method = "items" /\ pcalls[c].outcome = Error("itemsThrow")
    /\ \E c \in PCallIdx :
          pcalls[c].method = "annotations" /\ pcalls[c].outcome = Error("annotationsThrow")

C7_WitnessDiscoveryFails ==
    /\ provCaps.kind = "error"
    /\ \E c \in PCallIdx :
          /\ pcalls[c].method = "items"
          /\ pcalls[c].outcome = Value(<<"A">>)

\* ------------------------------------------------ claims: the combined stream
\* Every provider of the current list has produced an outcome.
AllProduced == plist # None /\ ProducedIn(results) = DOMAIN results

\* The items of the providers that succeeded, in list order.
RECURSIVE ItemsOfSucceeding(_)
ItemsOfSucceeding(n) ==
    IF n = 0 THEN << >>
    ELSE ItemsOfSucceeding(n - 1) \o
         (IF results[n].kind = "value" THEN results[n].val ELSE << >>)

\* The items of the providers of set S that succeeded, in list order.
RECURSIVE ItemsOfSucceedingIn(_, _)
ItemsOfSucceedingIn(S, n) ==
    IF n = 0 THEN << >>
    ELSE ItemsOfSucceedingIn(S, n - 1) \o
         (IF n \in S /\ results[n].kind = "value" THEN results[n].val ELSE << >>)

\* C8, the safety part: a provider's failure neither errors nor stops the
\* combined stream; the failing provider contributes the empty list to every
\* snapshot and the others' contributions are unaffected; a pull operation
\* (emitPartial=false) settles, once every provider has produced, with exactly
\* the items of the succeeding providers; every failure is logged.
C8_Isolated ==
    /\ stream # "errored"
    /\ promise.kind # "error"
    /\ plist # None =>
          /\ \A k \in 1..Len(emitted) :
                emitted[k].snapshot = ItemsOfSucceedingIn(emitted[k].produced, plist[1])
          /\ (AllProduced /\ op \in PullOperations)
                => promise = Value(ItemsOfSucceeding(plist[1]))
          /\ \A i \in ProviderIdx :
                results[i].kind = "error" <=> \E k \in 1..Len(aggLog) : aggLog[k] = i

\* C8: aggregation isolation: the safety part always holds, and (every
\* provider's call settling eventually) no sibling's call is cancelled: every
\* provider of the list gets to produce whether or not another one failed, and
\* the combined result settles.
C8_AggregationIsolation ==
    /\ [](C8_Isolated)
    /\ (plist # None) ~> (AllProduced /\ emitted # << >>)

\* C8 witness: of three providers one has failed and two have succeeded, and
\* the pull operation has settled with the two providers' items.
C8_Witness ==
    /\ op = "items"
    /\ plist = Some(3)
    /\ results[2].kind = "error"
    /\ promise = Value(<<ItemOf(1), ItemOf(3)>>)
    /\ aggLog = <<2>>

\* C9: a pull operation (emitPartial=false) emits nothing until every provider
\* of the list has produced an outcome; its first snapshot, which the promise
\* resolves to, holds every provider's contribution; no snapshot of only some
\* providers' results is emitted.
C9_PullEmitsOnlyComplete ==
    (op \in PullOperations /\ plist # None)
        => /\ \A k \in 1..Len(emitted) : emitted[k].produced = ProviderIdx
           /\ ~AllProduced => (emitted = << >> /\ promise = Pending)
           /\ promise # Pending
                => (emitted # << >> /\ promise = Value(ItemsOfSucceeding(plist[1])))

\* C9 witness: a pull operation over three providers has emitted, one provider
\* having succeeded, one failed and one returned null.
C9_Witness ==
    /\ op = "annotations"
    /\ plist = Some(3)
    /\ results[1].kind = "error"
    /\ results[2] = Null
    /\ results[3] = Value(<<ItemOf(3)>>)
    /\ Len(emitted) = 1
    /\ emitted[1].snapshot = <<ItemOf(3)>>

\* C10: a push operation (emitPartial=true) emits a snapshot as soon as any
\* provider has produced and again whenever a provider's contribution changes:
\* whenever some providers have produced, the latest snapshot holds exactly
\* their contributions, and the snapshots follow the order in which the
\* providers produced.
C10_PushEmitsPartial ==
    (op \in PushOperations /\ plist # None /\ ProducedIn(results) # {})
        => /\ emitted # << >>
           /\ emitted[Len(emitted)].produced = ProducedIn(results)
           /\ emitted[Len(emitted)].snapshot = ItemsOfSucceeding(plist[1])
           /\ \A k, l \in 1..Len(emitted) :
                 k < l => (emitted[k].produced \subseteq emitted[l].produced
                            /\ emitted[k].produced # emitted[l].produced)

\* C10 witness: provider 1 resolved with [A] before provider 2 with [B], and
\* the snapshot [A] was emitted before the snapshot [A, B].
C10_Witness ==
    /\ op = "itemsChanges"
    /\ \E k, l \in 1..Len(emitted) :
          /\ k < l
          /\ emitted[k].snapshot = <<ItemOf(1)>>
          /\ emitted[k].produced = {1}
          /\ emitted[l].snapshot = <<ItemOf(1), ItemOf(2)>>

\* The items of snapshot k, as a set.
SnapshotItems(k) == {emitted[k].snapshot[x] : x \in 1..Len(emitted[k].snapshot)}

\* C17: every snapshot is the concatenation, in the order of the provider
\* list, of what each provider contributed: each item of a provider that has
\* produced items is in it exactly once, nothing else is, and the items of an
\* earlier provider of the list come before those of a later one.
C17_SnapshotIsOrderedConcatenation ==
    \A k \in 1..Len(emitted) :
       LET snap == emitted[k].snapshot
       IN  /\ SnapshotItems(k) =
                 {ItemOf(i) : i \in {j \in emitted[k].produced : results[j] = Value(<<ItemOf(j)>>)}}
           /\ Len(snap) = Cardinality(SnapshotItems(k))
           /\ \A x, y \in 1..Len(snap) : x < y => snap[x] < snap[y]

C17_Witness ==
    /\ plist = Some(3)
    /\ results[2] = Error("itemsThrow")
    /\ \E k \in 1..Len(emitted) : emitted[k].snapshot = <<ItemOf(1), ItemOf(3)>>

\* ------------------------------------------------------- claims: the facade
\* The configurations the operation's stream has received, by position.
GenIdx == 1..Len(gens)

\* C11: a configuration whose enable is false yields the empty provider list
\* whatever providers it lists: no credential watch is started for it, no
\* provider of it is called, and while every configuration received is one
\* with enable false there is no env.authInfo call, no getOrCreate, no provider
\* call, and every combined result is the empty list.
C11_DisabledMeansNoProviders ==
    /\ \A g \in GenIdx :
          gens[g].config.enable = Some(FALSE) =>
             /\ gens[g].providers = << >>
             /\ gens[g].creds = << >>
             /\ \A k \in 1..Len(flist) : flist[k].gen # g
    /\ (gens # << >> /\ \A g \in GenIdx : gens[g].config.enable = Some(FALSE)) =>
          /\ effects.authInfo = 0
          /\ calls = << >>
          /\ effects.calls = 0
          /\ plist = Some(0)
          /\ emitted # << >>
          /\ \A k \in 1..Len(emitted) : emitted[k].snapshot = << >>
          /\ op \in PullOperations => promise = Value(<< >>)

C11_Witness ==
    /\ op \in PullOperations
    /\ Len(gens) = 1
    /\ gens[1].config.enable = Some(FALSE)
    /\ Len(gens[1].config.providers) = 2
    /\ promise = Value(<< >>)

\* The providers of generation g whose credential watch has a client.
WithClient(g) == {i \in DOMAIN gens[g].creds : gens[g].creds[i].kind = "value"}

\* C12: a provider whose credential lookup (or client construction) failed is
\* left out and nothing else changes: the combined stream does not fail for it,
\* and the list handed to the engine holds every other provider of the
\* configuration, in the configuration's order, each with its own settings.
C12_CredentialFailureIsolated ==
    /\ stream = "errored" => cfgSrc = "errored"
    /\ promise.kind = "error" => cfgSrc = "errored"
    /\ flist # << >> =>
          LET g == flist[1].gen
          IN  /\ AllResolved(gens[g])
              /\ Len(flist) = Cardinality(WithClient(g))
              /\ \A i \in WithClient(g) :
                    LET k == Cardinality({j \in WithClient(g) : j <= i})
                    IN  /\ flist[k].providerUri = gens[g].config.providers[i].providerUri
                        /\ flist[k].settings = gens[g].config.providers[i].settings
                        /\ flist[k].client = gens[g].creds[i].client[1]
                        /\ flist[k].gen = g

C12_Witness ==
    /\ stream = "open"
    /\ Len(gens) = 1
    /\ Len(gens[1].creds) = 2
    /\ gens[1].creds[1].kind = "null"
    /\ gens[1].creds[2].kind = "value"
    /\ Len(flist) = 1
    /\ flist[1].providerUri = "p2"
    /\ flist[1].settings = "s2"

C13_WitnessFirstSnapshot ==
    /\ op \in PullOperations
    /\ Len(flist) = 2
    /\ promise = Value(<<ItemOf(1), ItemOf(2)>>)

\* C14: once dispose() has returned, a configuration change runs no callback
\* of the facade: neither the debug pipeline's nor a provider-list pipeline's,
\* and with them no credential lookup, pool lookup or provider call.
C14_DisposeCancelsEverything ==
    [][disposed => effects' = effects]_vars

\* In a step, nothing is done for the operation's subscription: no
\* configuration callback, credential lookup, pool lookup or provider call.
SubscriptionQuiet ==
    /\ effects'.callbacks = effects.callbacks
    /\ effects'.authInfo = effects.authInfo
    /\ effects'.pool = effects.pool
    /\ effects'.failures = effects.failures
    /\ effects'.calls = effects.calls

\* The part of C15 about the consumer: after the host unsubscribed from the
\* stream, nothing more is done for the subscription.
UnsubscribeCancels ==
    [][stream = "unsubscribed" => SubscriptionQuiet]_vars

\* C15: after the consumer unsubscribed from the stream of
\* itemsChanges/annotationsChanges, or the facade was disposed, no later
\* configuration or credential emission causes a pool lookup or a provider
\* call for that subscription: its watches are cancelled.
C15_CancellationPropagates ==
    [][(stream = "unsubscribed" \/ disposed) => SubscriptionQuiet]_vars

\* C16: the combined stream never terminates with an error and the promise of
\* items/annotations never rejects.
C16_NeverFails ==
    /\ stream # "errored"
    /\ promise.kind # "error"

\* C19: every message that reached env.logger was delivered while the latest
\* debug flag was true, whoever produced it: the facade, a ProviderClient of
\* the pool, or the aggregation engine.
C19_LogGatedByDebug ==
    \A k \in 1..Len(sink) : sink[k].debug = Some(TRUE)

\* The part of C19 about the facade's own logger: the messages of the facade
\* and of the pool's ProviderClients are delivered under debug = true only.
GatedLoggerGated ==
    \A k \in 1..Len(sink) : sink[k].from # "engine" => sink[k].debug = Some(TRUE)

\* ------------------------------------------------- claims: keys and loggers
\* What an identity means: the provider, and its headers whatever their order.
Meaning(key) ==
    [providerUri |-> key.providerUri,
     credentials |-> key.authInfo # None,
     headers |-> IF key.authInfo = None \/ key.authInfo[1].headers = None THEN {}
                 ELSE {key.authInfo[1].headers[1][x] : x \in 1..Len(key.authInfo[1].headers[1])}]

\* C18: two getOrCreate calls within the TTL window whose identities mean the
\* same (the same providerUri, the same header names and values in whatever
\* order, null and absent credentials alike) return the same client.
C18_KeysComparedByMeaning ==
    \A m, j \in CallIdx :
       (m < j /\ calls[j].at - calls[m].at < ttl
              /\ Meaning(calls[m].key) = Meaning(calls[j].key))
          => calls[j].client = calls[m].client

\* The part of C18 the code keeps: identities whose serialisations are equal
\* return the same client within the TTL window.
KeysComparedBySerialisation ==
    \A m, j \in CallIdx :
       (m < j /\ calls[j].at - calls[m].at < ttl
              /\ cacheKey(calls[m].key) = cacheKey(calls[j].key))
          => calls[j].client = calls[m].client

\* C20: a call ends with the same transport calls and the same result or
\* error whatever logger the ProviderClient was given.
C20_LoggingKeepsControlFlow ==
    \A r \in 1..Len(runs) : \A a, b \in LoggerKinds :
       runs[r].under[a] = runs[r].under[b]

\* The part of C20 the code keeps: a logger that returns changes nothing.
ReturningLoggerKeepsControlFlow ==
    \A r \in 1..Len(runs) : runs[r].under["none"] = runs[r].under["returns"]

\* --------------------------------------------------- claims: selector gating
\* C21: an annotations call passes the gate (goes on to the transport's
\* annotations method) exactly as the documented rule says: always when the
\* selector is undefined, never when it is [], and for a non-empty array
\* exactly when every selector is satisfied: for [{path: "**/*.go"}] on the
\* .go resources, for [{path: "**/*.go"}, {contentContains: "x"}] on the .go
\* resource whose content is present and contains "x".
C21_GateFollowsSelectorRule ==
    \A c \in PCallIdx :
       (pcalls[c].method = "annotations" /\ pcalls[c].caps.kind = "value") =>
          LET sel == pcalls[c].caps.val[1].selector
              passed == Invocations(c, "annotations") = 1
              gated == pcalls[c].outcome = Null /\ Invocations(c, "annotations") = 0
              isGo == pcalls[c].params.uri = GoUri
              hasX == pcalls[c].params.content = Some(<<"x", "y">>)
          IN  /\ passed # gated
              /\ sel = None => passed
              /\ sel = Some(<< >>) => gated
              /\ sel = Some(<<GoSelector>>) => (passed <=> isGo)
              /\ sel = Some(<<GoSelector, XSelector>>) => (passed <=> (isGo /\ hasX))

C21_Witness ==
    /\ provCaps = Value(<<[selector |-> Some(<<GoSelector, XSelector>>)]>>)
    /\ \E c \in PCallIdx :
          /\ pcalls[c].params = [uri |-> GoUri, content |-> None]
          /\ pcalls[c].method = "annotations"
          /\ pcalls[c].outcome = Null
    /\ \E c \in PCallIdx :
          /\ pcalls[c].params = [uri |-> GoUri, content |-> Some(<<"x", "y">>)]
          /\ pcalls[c].trace = <<"capabilities", "annotations">>

\* ------------------------------------------- claims: the provider list
\* C22: the provider list in force was derived from a configuration no newer
\* configuration has emitted a list after: a list of an earlier configuration
\* is never handed to the engine once a later configuration has emitted its
\* list (a configuration emits its list when every provider of it is resolved;
\* one without providers at once).
C22_ListFollowsLatestConfiguration ==
    flist # << >> =>
       \A g \in GenIdx : g > flist[1].gen => ~AllResolved(gens[g])

\* The latest getOrCreate call.
LastCall == calls[Len(calls)]

\* C23: a client the pool has returned for one identity is never returned for
\* an identity with another providerUri or other credentials; and when a
\* credential watch emits and a list is handed to the engine, the provider's
\* entry of that list carries the client the pool returned for the credentials
\* just emitted.
C23_ClientBoundToIdentity ==
    /\ [](\A m, j \in CallIdx : calls[m].client = calls[j].client => calls[m].key = calls[j].key)
    /\ [][(Len(calls') > Len(calls) /\ effects'.calls > effects.calls) =>
            /\ \E k \in 1..Len(flist') : flist'[k].providerUri = LastCall'.key.providerUri
            /\ \A k \in 1..Len(flist') :
                  flist'[k].providerUri = LastCall'.key.providerUri
                     => flist'[k].client = LastCall'.client]_vars

C23_Witness ==
    /\ Len(calls) = 2
    /\ calls[1].key = KeyOf("p2", NullAuth)
    /\ calls[2].key = KeyOf("p2", AuthA)
    /\ calls[1].client # calls[2].client
    /\ Len(flist) = 1
    /\ flist[1].client = calls[2].client

\* ------------------------------------------------------ claims: pool expiry
\* C24: expiry is autonomous: an entry is out of the pool no later than the
\* TTL plus one resolution tick after it was stored, whether or not getOrCreate
\* is called again.
C24_ExpiryIsAutonomous ==
    \A k \in DOMAIN cache : now - cache[k].start <= ttl + ttlResolution

\* ---------------------------------------------- claims: the rest of the facade
\* In a step, every message of the gated logger that reaches env.logger does so
\* while the latest configuration of the request's stream has debug true.
DeliveredUnderRequestsDebug ==
    op \in {"annotations", "annotationsChanges"} =>
       \A k \in (Len(sink) + 1)..Len(sink') :
          sink'[k].from # "engine" => (gens # << >> /\ gens[Len(gens)].config.debug)

\* C25: a message of the gated logger is delivered to env.logger for a request
\* on a resource only if the configuration resolved for that resource (the
\* latest the request's stream received) has debug true. Stated for
\* annotations and annotationsChanges, whose configuration is the resource's.
C25_DebugOfTheRequestsConfiguration ==
    [][DeliveredUnderRequestsDebug]_vars

\* A credential lookup of generation g has neither produced a value nor failed.
LookupPending(g) == \E i \in DOMAIN gens[g].creds : gens[g].creds[i].kind = "pending"

\* C26: no provider of a configuration is in the list handed to the engine
\* while one of that configuration's credential lookups is pending; and while
\* every configuration received is waiting for a lookup, no list has been
\* handed over, no provider has been called, nothing has been emitted and the
\* promise of a pull operation has not resolved.
C26_ListWaitsForEveryCredential ==
    /\ \A g \in GenIdx : LookupPending(g) => \A k \in 1..Len(flist) : flist[k].gen # g
    /\ (gens # << >> /\ \A g \in GenIdx : LookupPending(g)) =>
          /\ plist = None
          /\ effects.calls = 0
          /\ emitted = << >>
          /\ promise.kind # "value"

C26_Witness ==
    /\ op \in PullOperations
    /\ Len(gens) = 1
    /\ Len(gens[1].creds) = 2
    /\ gens[1].creds[1].kind = "value"
    /\ gens[1].creds[2].kind = "pending"
    /\ Len(calls) = 1
    /\ promise = Pending

\* C27: a configuration whose enable is absent is treated as one whose enable
\* is false: its provider list is empty, no credential watch is started for it
\* and none of its providers is called; credential watches exist only for
\* configurations whose enable is true.
C27_AbsentEnableMeansDisabled ==
    /\ \A g \in GenIdx :
          /\ gens[g].config.enable = None =>
                /\ gens[g].providers = << >>
                /\ gens[g].creds = << >>
                /\ \A k \in 1..Len(flist) : flist[k].gen # g
          /\ gens[g].creds # << >> => gens[g].config.enable = Some(TRUE)
    /\ (gens # << >> /\ \A g \in GenIdx : gens[g].config.enable = None) =>
          /\ effects.authInfo = 0
          /\ calls = << >>
          /\ effects.calls = 0
          /\ \A k \in 1..Len(emitted) : emitted[k].snapshot = << >>

C27_Witness ==
    /\ op \in PushOperations
    /\ Len(gens) = 1
    /\ gens[1].config.enable = None
    /\ gens[1].config.providers # << >>
    /\ emitted = <<[snapshot |-> << >>, produced |-> {}]>>
    /\ calls = << >>

\* ------------------------------------------------------------ specifications
PoolIdle ==
    /\ now = 1
    /\ advances = 0
    /\ cache = << >>
    /\ cachedNow = 0
    /\ timers = {}
    /\ nextClient = 1
    /\ calls = << >>

\* The pool of a new client: an empty LRUCache. The clock starts at 1: a start
\* time of 0 means "no TTL" to the LRUCache, and performance.now() is positive.
PoolInit == PoolIdle

\* The provider pool.
Init == PoolInit /\ ClientIdle /\ AggIdle /\ FacadeIdle /\ LogIdle

Next ==
    \/ \E key \in Identities : getOrCreate(key)
    \/ \E t \in timers : FireTimer(t)
    \/ \E d \in TimeSteps : Advance(d)

Spec == Init /\ [][Next]_vars

\* One ProviderClient and its transport.
InitClient == ClientInit /\ PoolIdle /\ AggIdle /\ FacadeIdle /\ LogIdle

NextClient ==
    \/ \E params \in Resources : CallItems(params)
    \/ \E params \in Resources : CallAnnotations(params)
    \/ \E c \in 1..MaxClientCalls, answer \in TransportAnswers : TransportItemsAnswers(c, answer)
    \/ \E c \in 1..MaxClientCalls : TransportCapabilitiesAnswers(c)
    \/ \E c \in 1..MaxClientCalls, answer \in TransportAnswers :
          TransportAnnotationsAnswers(c, answer)

SpecClient == InitClient /\ [][NextClient]_vars

\* One operation of the facade over the aggregation engine.
InitAgg == AggIdle /\ PoolIdle /\ ClientIdle /\ FacadeIdle /\ LogIdle

NextAgg ==
    \/ \E o \in Operations : Subscribe(o)
    \/ \E n \in 0..MaxProviders : ProviderListEmits(n)
    \/ \E i \in 1..MaxProviders : \E outcome \in ProviderOutcomes(i) : ProviderSettles(i, outcome)

SpecAgg == InitAgg /\ [][NextAgg]_vars

\* The same, every provider's call settling eventually.
SpecAggFair == SpecAgg /\ WF_vars(NextAgg)

\* The pool's keys, as the facade builds them from what env.authInfo emits.
InitKeys == PoolIdle /\ ClientIdle /\ AggIdle /\ FacadeIdle /\ LogIdle

NextKeys == \E providerUri \in ProviderUris, authInfo \in KeyCredentials : LookUp(providerUri, authInfo)

SpecKeys == InitKeys /\ [][NextKeys]_vars

\* One ProviderClient call, under each kind of logger.
InitLog == LogIdle /\ PoolIdle /\ ClientIdle /\ AggIdle /\ FacadeIdle

NextLog ==
    \E method \in {"items", "annotations"}, params \in Resources,
       caps \in CapabilitiesBehaviours, answer \in TransportAnswers :
          CallUnderEachLogger(method, params, caps, answer)

SpecLog == InitLog /\ [][NextLog]_vars

\* The facade: one operation of a Client, its configuration and credential
\* watches, the pool, the engine, the debug-gated logger and dispose().
InitFacade == FacadeIdle /\ AggIdle /\ PoolIdle /\ ClientIdle /\ LogIdle

NextFacade ==
    \/ \E o \in Operations : Subscribe(o)
    \/ \E config \in Configurations : ConfigurationEmits(config)
    \/ \E g \in 1..MaxEmissions, i \in 1..MaxProviders, authInfo \in Credentials :
          CredentialEmits(g, i, authInfo)
    \/ \E g \in 1..MaxEmissions, i \in 1..MaxProviders : CredentialFails(g, i)
    \/ \E i \in 1..MaxProviders : \E outcome \in ProviderOutcomes(i) :
          FacadeProviderSettles(i, outcome)
    \/ \E config \in Configurations : DebugConfigurationEmits(config)
    \/ Dispose
    \/ Unsubscribe
    \/ ConfigurationFails
    \/ ConfigurationCompletes

SpecFacade == InitFacade /\ [][NextFacade]_vars

====
